---- MODULE Spec2Model ----
(***************************************************************************)
(* State-machine model of dmc2gym/natural_imgsource_invariant.py: the five *)
(* ImageSource variants (FixedColorSource, RandomColorSource, NoiseSource, *)
(* RandomImageSource, RandomVideoSource) driven by a single-threaded       *)
(* caller that constructs one source and then calls reset() and            *)
(* get_image() in any order.                                               *)
(*                                                                         *)
(* Python indices are kept 0-based (At reads a 0-based position of a       *)
(* sequence).  The object is the record self; an attribute exists exactly  *)
(* when it is in DOMAIN self, so "del self.x" removes a field and a first  *)
(* assignment adds one.  The attributes _loc, _video_id, _current_vid and  *)
(* _color are the fields loc, video_id, current_vid and color.             *)
(***************************************************************************)
EXTENDS Integers, Sequences, FiniteSets, TLC

VARIABLES
    args,        \* the constructor's arguments, fixed by the caller
    media,       \* what the external decoder yields for each file on disk
    callerList,  \* the caller's list object passed as filelist
    obj,         \* "none" | "constructing" | "live" | "failed"
    self,        \* the source object's attributes
    pc,          \* "idle" | "reset_loop" (inside RandomVideoSource.reset's while)
    ret,         \* outcome of the last completed call, as the caller sees it
    retried,     \* history: a load attempt of the current or last reset() failed
    failed_ids,  \* history: the latest indices whose load failed in the running reset()
    other        \* a second source the caller builds from the same list object

vars == <<args, media, callerList, obj, self, pc, ret, retried, failed_ids, other>>

----------------------------------------------------------------------------
(* Bounds of the model. *)

MaxFiles == 2      \* longest caller file list
MaxFrames == 2     \* most frames the video decoder yields for one file
MaxTotal == 3      \* largest total_frames argument
MaxImages == 2     \* largest max_images argument
MaxLoc == 4        \* cap on the sequential cursor, which the code never wraps

(* Program constants. *)
NumFramesCap == 1000   \* vread(fname, num_frames=1000)

----------------------------------------------------------------------------
(* Values. *)

None == <<>>
Some(v) == <<v>>
Truthy(o) == o # None /\ o[1] # 0

Corrupt == 0 - 1    \* decoder outcome "raises"; any other outcome is a frame count

Shapes == {<<1, 1>>, <<2, 3>>}
Colors == {<<0, 0, 0>>, <<255, 0, 128>>}
NoiseSamples == {"n1", "n2"}
RawHW == <<4, 5>>      \* height and width of undecoded media, before resizing

At(seq, i) == seq[i + 1]
Range(seq) == {seq[i] : i \in DOMAIN seq}
(* random.shuffle(seq): every rearrangement of seq is a possible outcome. *)
shuffle(seq) ==
    {p \in [DOMAIN seq -> Range(seq)] : \A i, j \in DOMAIN seq : i # j => p[i] # p[j]}
Take(seq, k) == IF k >= Len(seq) THEN seq ELSE SubSeq(seq, 1, k)
Min(a, b) == IF a <= b THEN a ELSE b

HasAttr(o, a) == a \in DOMAIN o
DelAttr(o, a) == [f \in DOMAIN o \ {a} |-> o[f]]
SetAttr(o, a, v) == (a :> v) @@ o

(* np.random.randint(low, high): raises ValueError when low >= high. *)
randint(low, high) == low..(high - 1)
randint_raises(low, high) == low >= high

Ok(op, v) == [op |-> op, status |-> "ok", val |-> v]
Raised(op, exc) == [op |-> op, status |-> "raised", val |-> exc]

----------------------------------------------------------------------------
(* numpy / cv2 helpers. *)

(* An image: its shape and its content. *)
Image(shape, data) == [shape |-> shape, data |-> data]

(* np.zeros((h, w, 3)); arr[:, :] = color *)
Full(shape, color) ==
    Image(<<shape[1], shape[2], 3>>,
          [p \in (1..shape[1]) \X (1..shape[2]) |-> color])

(* The shape of one frame of the preallocated buffer. *)
FrameShape(shape, grayscale) ==
    <<shape[1], shape[2]>> \o (IF ~grayscale THEN <<3>> ELSE <<1>>)

(* cv2.resize(im, (w, h)): a single-channel input comes back two-dimensional. *)
resize(im, shape) ==
    Image(IF Len(im.shape) = 3 /\ im.shape[3] # 1
              THEN <<shape[1], shape[2], im.shape[3]>>
              ELSE <<shape[1], shape[2]>>,
          im.data)

(* numpy assignment arr[i] = value: value's shape must broadcast into target's. *)
BroadcastsInto(v, t) ==
    /\ Len(v) <= Len(t)
    /\ \A k \in 1..Len(v) :
          LET a == v[Len(v) + 1 - k]
              b == t[Len(t) + 1 - k]
          IN  a = b \/ a = 1

----------------------------------------------------------------------------
(* The external decoders, as the source calls them. *)

(* cv2.imread(fname, flag): None for an unreadable file, else a raw array  *)
(* (H, W) in grayscale mode and (H, W, 3) in colour mode.                  *)
imread(fname, grayscale) ==
    IF media[fname] = Corrupt THEN None
    ELSE Some(Image(IF grayscale THEN RawHW ELSE RawHW \o <<3>>, <<fname, 0>>))

(* skvideo.io.vread: raises on a corrupt file, else the raw frames          *)
(* (T, H, W, 1) with pix_fmt gray and (T, H, W, 3) otherwise, at most      *)
(* num_frames of them in colour mode.                                      *)
vread_raises(fname) == media[fname] = Corrupt
vread(fname, grayscale) ==
    LET T == IF grayscale THEN media[fname] ELSE Min(media[fname], NumFramesCap)
    IN  [i \in 1..T |->
            Image(RawHW \o (IF grayscale THEN <<1>> ELSE <<3>>), <<fname, i - 1>>)]

----------------------------------------------------------------------------
(* RandomImageSource.build_arr *)

(* The file read for frame index i: filelist[i % len(filelist)]. *)
file_index_clamped(i, n) == Min(i, n - 1)
file_index(i, n) == i % n

(* The result of the loop body for frame index i: the exception it raises  *)
(* or the frame stored in arr[i].                                          *)
build_frame(flist, shape, grayscale, i) ==
    IF Len(flist) = 0 THEN Raised("build_arr", "ZeroDivisionError")
    ELSE LET fname == At(flist, file_index(i, Len(flist)))
             im == imread(fname, grayscale)
         IN  IF im = None
                 THEN Raised("build_arr", IF grayscale THEN "TypeError" ELSE "cv2.error")
             ELSE LET raw == IF grayscale
                                 THEN Image(im[1].shape \o <<1>>, im[1].data)
                                 ELSE im[1]
                      small == resize(raw, shape)
                  IN  IF BroadcastsInto(small.shape, FrameShape(shape, grayscale))
                          THEN Ok("build_arr",
                                  Image(FrameShape(shape, grayscale), small.data))
                          ELSE Raised("build_arr", "ValueError")

(* A build_arr that skips a frame it cannot build, leaving arr[i] zero. *)
build_arr_lenient(flist, shape, grayscale, total) ==
    LET N == IF Truthy(total) THEN total[1] ELSE Len(flist)
        frame(i) == build_frame(flist, shape, grayscale, i)
    IN  [total_frames |-> N,
         res |-> Ok("build_arr",
                    [i \in 1..N |->
                        IF frame(i - 1).status = "raised"
                            THEN Image(FrameShape(shape, grayscale), <<0 - 1, 0>>)
                            ELSE frame(i - 1).val])]

(* build_arr as a whole: total_frames as it leaves it, and either the      *)
(* first exception of the loop or the filled buffer.                       *)
build_arr(flist, shape, grayscale, total) ==
    LET N == IF Truthy(total) THEN total[1] ELSE Len(flist)
        bad == {i \in 0..(N - 1) : build_frame(flist, shape, grayscale, i).status = "raised"}
        first == CHOOSE i \in bad : \A j \in bad : i <= j
    IN  IF bad # {}
            THEN [total_frames |-> N, res |-> build_frame(flist, shape, grayscale, first)]
            ELSE [total_frames |-> N,
                  res |-> Ok("build_arr",
                             [i \in 1..N |-> build_frame(flist, shape, grayscale, i - 1).val])]

----------------------------------------------------------------------------
(* RandomVideoSource.load_video *)

(* fname = self.filelist[vid_id] *)
video_file_first(flist, vid_id) == At(flist, 0)
video_file(flist, vid_id) == At(flist, vid_id)

load_video(flist, shape, grayscale, vid_id) ==
    LET fname == video_file(flist, vid_id)
    IN  IF vread_raises(fname) THEN Raised("load_video", "decode error")
        ELSE LET frames == vread(fname, grayscale)
                 small == [i \in DOMAIN frames |-> resize(frames[i], shape)]
             IN  IF \A i \in DOMAIN frames :
                        BroadcastsInto(small[i].shape, FrameShape(shape, grayscale))
                     THEN Ok("load_video",
                             [i \in DOMAIN frames |->
                                 Image(FrameShape(shape, grayscale), small[i].data)])
                     ELSE Raised("load_video", "ValueError")

----------------------------------------------------------------------------
(* numpy arrays with their elements: the shape and a function from index   *)
(* tuples to scalars. A plain Python scalar is the array of shape ().      *)

(* The index tuples of an array whose axes have at most 3 elements. *)
Indices(shape) ==
    {idx \in [1..Len(shape) -> 0..2] : \A k \in 1..Len(shape) : idx[k] < shape[k]}

NdArray(shape, data) == [shape |-> shape, data |-> data]

(* np.asarray of an (r, g, b) tuple and of a single value. *)
asarray_tuple(c) == NdArray(<<Len(c)>>, [idx \in Indices(<<Len(c)>>) |-> c[idx[1] + 1]])
asarray_scalar(v) == NdArray(<<>>, [idx \in Indices(<<>>) |-> v])

(* The element of array a that broadcasting pairs with index idx of the    *)
(* result: the trailing axes of idx, with 0 on an axis of length 1.        *)
broadcast_index(a, idx) ==
    LET skip == Len(idx) - Len(a.shape)
    IN  [k \in 1..Len(a.shape) |-> IF a.shape[k] = 1 THEN 0 ELSE idx[skip + k]]

(* The shape of a op b for an array a of at least b's rank whose trailing  *)
(* axes agree with b's or have length 1 in one of the two.                 *)
broadcast_shape(a, b) ==
    LET skip == Len(a.shape) - Len(b.shape)
    IN  [k \in 1..Len(a.shape) |->
            IF k <= skip \/ b.shape[k - skip] = 1 THEN a.shape[k] ELSE b.shape[k - skip]]

(* a == b of numpy: the element-wise comparison of the broadcast operands. *)
ndarray_eq(a, b) ==
    LET sh == broadcast_shape(a, b)
    IN  NdArray(sh, [idx \in Indices(sh) |->
                       a.data[broadcast_index(a, idx)] = b.data[broadcast_index(b, idx)]])

----------------------------------------------------------------------------
(* The caller's choices: which source it builds, from which arguments, and *)
(* what the files on disk decode to.                                       *)

Classes ==
    {"FixedColorSource", "RandomColorSource", "NoiseSource",
     "RandomImageSource", "RandomVideoSource"}

NoArgs ==
    [cls |-> "none", shape |-> <<1, 1>>, color |-> <<0, 0, 0>>, max_images |-> 0,
     total_frames |-> None, grayscale |-> FALSE, random_bg |-> FALSE, max_videos |-> 0,
     strength |-> 255, img |-> None]

ArgsOf(cls) ==
    CASE cls = "FixedColorSource" ->
           {[NoArgs EXCEPT !.cls = cls, !.shape = sh, !.color = c] :
               sh \in Shapes, c \in Colors}
      [] cls = "RandomColorSource" ->
           {[NoArgs EXCEPT !.cls = cls, !.shape = sh, !.max_images = m] :
               sh \in Shapes, m \in 0..MaxImages}
      [] cls = "NoiseSource" ->
           {[NoArgs EXCEPT !.cls = cls, !.shape = sh] : sh \in Shapes}
      [] cls = "RandomImageSource" ->
           {[NoArgs EXCEPT !.cls = cls, !.shape = sh, !.grayscale = g, !.total_frames = t] :
               sh \in Shapes, g \in BOOLEAN,
               t \in {None} \cup {Some(n) : n \in 0..MaxTotal}}
      [] cls = "RandomVideoSource" ->
           {[NoArgs EXCEPT !.cls = cls, !.shape = sh, !.grayscale = g, !.random_bg = b,
                           !.max_videos = k] :
               sh \in Shapes, g \in BOOLEAN, b \in BOOLEAN, k \in 0..MaxFiles}

(* The images a caller may pass to get_mask and the colors it may key on:  *)
(* (h, w, 3) images with an (r, g, b) tuple, (h, w) images with a value.   *)
MaskShapes == {<<1, 1>>, <<1, 2>>}
PixelValues == {<<0, 0, 0>>, <<255, 0, 128>>, <<255, 0, 0>>}
GrayValues == {0, 255}
ColorImages ==
    UNION {{NdArray(sh \o <<3>>,
                    [idx \in Indices(sh \o <<3>>) |-> px[<<idx[1], idx[2]>>][idx[3] + 1]]) :
               px \in [Indices(sh) -> PixelValues]} : sh \in MaskShapes}
GrayImages ==
    UNION {{NdArray(sh, px) : px \in [Indices(sh) -> GrayValues]} : sh \in MaskShapes}
MattingArgs ==
    {[NoArgs EXCEPT !.cls = "BackgroundMatting", !.color = asarray_tuple(c),
                    !.img = Some(im)] : c \in Colors, im \in ColorImages}
    \cup
    {[NoArgs EXCEPT !.cls = "BackgroundMatting", !.color = asarray_scalar(v),
                    !.img = Some(im)] : v \in GrayValues, im \in GrayImages}

(* The file lists a caller may pass: n distinct files, in order. *)
FileLists(cls) ==
    IF cls \in {"RandomImageSource", "RandomVideoSource"}
        THEN {[i \in 1..n |-> i] : n \in 0..MaxFiles}
        ELSE {<<>>}

(* What a file may decode to: an image file is unreadable or one image, a  *)
(* video file is unreadable or any number of frames, zero included.        *)
Outcomes(cls) ==
    IF cls = "RandomVideoSource" THEN {Corrupt} \cup 0..MaxFrames ELSE {Corrupt, 1}

Init ==
    /\ \/ \E cls \in Classes :
             /\ args \in ArgsOf(cls)
             /\ callerList \in FileLists(cls)
             /\ media \in [Range(callerList) -> Outcomes(cls)]
       \/ /\ args \in MattingArgs
          /\ callerList = <<>>
          /\ media = <<>>
    /\ obj = "none"
    /\ self = [cls |-> "none"]
    /\ pc = "idle"
    /\ ret = Ok("none", None)
    /\ retried = FALSE
    /\ failed_ids = <<>>
    /\ other = [cls |-> "none"]

Live(cls) == obj = "live" /\ pc = "idle" /\ self.cls = cls

----------------------------------------------------------------------------
(* BackgroundMatting *)

BackgroundMatting_init ==
    /\ obj = "none" /\ args.cls = "BackgroundMatting"
    /\ self' = [cls |-> args.cls, color |-> args.color]
    /\ obj' = "matting"
    /\ ret' = Ok("__init__", None)
    /\ UNCHANGED <<retried, failed_ids, other, args, media, callerList, pc>>

BackgroundMatting_get_mask ==
    /\ obj = "matting" /\ pc = "idle"
    /\ ret' = Ok("get_mask", ndarray_eq(args.img[1], self.color))
    /\ UNCHANGED <<retried, failed_ids, other, args, media, callerList, pc, obj, self>>

----------------------------------------------------------------------------
(* ImageSource: the base class's reset, inherited by FixedColorSource and  *)
(* NoiseSource, does nothing.                                              *)

ImageSource_reset ==
    /\ obj = "live" /\ pc = "idle"
    /\ self.cls \in {"FixedColorSource", "NoiseSource"}
    /\ ret' = Ok("reset", None)
    /\ UNCHANGED <<retried, failed_ids, other, args, media, callerList, obj, self, pc>>

----------------------------------------------------------------------------
(* FixedColorSource *)

FixedColorSource_init ==
    /\ obj = "none" /\ args.cls = "FixedColorSource"
    /\ self' = [cls |-> args.cls, arr |-> Full(args.shape, args.color)]
    /\ obj' = "live"
    /\ ret' = Ok("__init__", None)
    /\ UNCHANGED <<retried, failed_ids, other, args, media, callerList, pc>>

FixedColorSource_get_image ==
    /\ Live("FixedColorSource")
    /\ ret' = Ok("get_image", self.arr)
    /\ UNCHANGED <<retried, failed_ids, other, args, media, callerList, obj, self, pc>>

----------------------------------------------------------------------------
(* RandomColorSource *)

(* reset() applied to the attributes s, for the index id the generator     *)
(* draws: the attributes it leaves.                                        *)
RandomColorSource_reset_stale(s, id) ==
    LET s1 == SetAttr(s, "color_id", id)
        s2 == SetAttr(s1, "color", At(s.color_list, 0))
    IN  SetAttr(s2, "arr", Full(s.shape, s2.color))

RandomColorSource_reset_on(s, id) ==
    LET s1 == SetAttr(s, "color_id", id)
        s2 == SetAttr(s1, "color", At(s.color_list, id))
    IN  SetAttr(s2, "arr", Full(s.shape, s2.color))

RandomColorSource_init ==
    /\ obj = "none" /\ args.cls = "RandomColorSource"
    /\ \E cl \in [1..args.max_images -> Colors] :
          LET s == [cls |-> args.cls, color_list |-> cl, color_id |-> None,
                    shape |-> args.shape, arr |-> None]
          IN  IF randint_raises(0, Len(cl))
                  THEN /\ self' = s
                       /\ obj' = "failed"
                       /\ ret' = Raised("__init__", "ValueError")
                  ELSE \E id \in randint(0, Len(cl)) :
                          /\ self' = RandomColorSource_reset_on(s, id)
                          /\ obj' = "live"
                          /\ ret' = Ok("__init__", None)
    /\ UNCHANGED <<retried, failed_ids, other, args, media, callerList, pc>>

RandomColorSource_reset ==
    /\ Live("RandomColorSource")
    /\ \E id \in randint(0, Len(self.color_list)) :
          self' = RandomColorSource_reset_on(self, id)
    /\ ret' = Ok("reset", None)
    /\ UNCHANGED <<retried, failed_ids, other, args, media, callerList, obj, pc>>

RandomColorSource_get_envindex == self.color_id

RandomColorSource_get_image ==
    /\ Live("RandomColorSource")
    /\ ret' = Ok("get_image", self.arr)
    /\ UNCHANGED <<retried, failed_ids, other, args, media, callerList, obj, self, pc>>

----------------------------------------------------------------------------
(* NoiseSource *)

NoiseSource_init ==
    /\ obj = "none" /\ args.cls = "NoiseSource"
    /\ self' = [cls |-> args.cls, shape |-> args.shape, strength |-> args.strength]
    /\ obj' = "live"
    /\ ret' = Ok("__init__", None)
    /\ UNCHANGED <<retried, failed_ids, other, args, media, callerList, pc>>

(* np.random.randn(h, w, 3) * strength: a fresh sample on every call. *)
NoiseSource_get_image ==
    /\ Live("NoiseSource")
    /\ \E sample \in NoiseSamples :
          ret' = Ok("get_image", Image(<<self.shape[1], self.shape[2], 3>>, sample))
    /\ UNCHANGED <<retried, failed_ids, other, args, media, callerList, obj, self, pc>>

----------------------------------------------------------------------------
(* RandomImageSource.  self.filelist is the caller's list object itself    *)
(* (no copy is made), so the model reads it as callerList.                 *)

RandomImageSource_init ==
    /\ obj = "none" /\ args.cls = "RandomImageSource"
    /\ LET b == build_arr(callerList, args.shape, args.grayscale, args.total_frames)
           s0 == [cls |-> args.cls, grayscale |-> args.grayscale,
                  total_frames |-> b.total_frames, shape |-> args.shape]
       IN  IF b.res.status = "raised"
               THEN /\ self' = s0
                    /\ obj' = "failed"
                    /\ ret' = Raised("__init__", b.res.val)
           ELSE LET s1 == SetAttr(SetAttr(s0, "arr", b.res.val), "current_idx", 0)
                IN  IF randint_raises(0, s1.total_frames)
                        THEN /\ self' = s1
                             /\ obj' = "failed"
                             /\ ret' = Raised("__init__", "ValueError")
                        ELSE \E l \in randint(0, s1.total_frames) :
                                /\ self' = SetAttr(s1, "loc", l)
                                /\ obj' = "live"
                                /\ ret' = Ok("__init__", None)
    /\ UNCHANGED <<retried, failed_ids, other, args, media, callerList, pc>>

RandomImageSource_reset ==
    /\ Live("RandomImageSource")
    /\ \E l \in randint(0, self.total_frames) :
          self' = SetAttr(self, "loc", l)
    /\ ret' = Ok("reset", None)
    /\ UNCHANGED <<retried, failed_ids, other, args, media, callerList, obj, pc>>

RandomImageSource_get_image_advancing ==
    /\ Live("RandomImageSource")
    /\ self' = SetAttr(self, "loc", (self.loc + 1) % self.total_frames)
    /\ ret' = Ok("get_image", At(self.arr, self'.loc))
    /\ UNCHANGED <<retried, failed_ids, other, args, media, callerList, obj, pc>>

RandomImageSource_get_image ==
    /\ Live("RandomImageSource")
    /\ ret' = Ok("get_image", At(self.arr, self.loc))
    /\ UNCHANGED <<retried, failed_ids, other, args, media, callerList, obj, self, pc>>

----------------------------------------------------------------------------
(* RandomVideoSource.  reset() is two steps: the statement before the loop *)
(* (del self._current_vid) and one pass of the while loop, which either    *)
(* fails and stays in the loop or succeeds, leaves it and runs the         *)
(* statement after it.  __init__ runs up to and including the del.         *)

(* self.filelist[:max_videos] *)
pool_untruncated(shuffled, max_videos) == shuffled
pool(shuffled, max_videos) == Take(shuffled, max_videos)

RandomVideoSource_init ==
    /\ obj = "none" /\ args.cls = "RandomVideoSource"
    /\ \E shuffled \in shuffle(callerList) :
          /\ callerList' = shuffled
          /\ self' = [cls |-> args.cls, grayscale |-> args.grayscale, shape |-> args.shape,
                      filelist |-> pool(shuffled, args.max_videos),
                      max_videos |-> args.max_videos, random_bg |-> args.random_bg,
                      current_idx |-> 0]
    /\ obj' = "constructing"
    /\ pc' = "reset_loop"
    /\ retried' = FALSE
    /\ UNCHANGED <<args, media, ret, failed_ids, other>>

(* A reset() that keeps the old buffer while the next one is loaded. *)
RandomVideoSource_reset_keep ==
    /\ Live("RandomVideoSource")
    /\ pc' = "reset_loop"
    /\ retried' = FALSE
    /\ UNCHANGED <<self, ret, args, media, callerList, obj, failed_ids, other>>

(* del self._current_vid, the first statement of reset(). *)
RandomVideoSource_reset_del ==
    /\ Live("RandomVideoSource")
    /\ IF HasAttr(self, "current_vid")
           THEN /\ self' = DelAttr(self, "current_vid")
                /\ pc' = "reset_loop"
                /\ retried' = FALSE
                /\ ret' = ret
           ELSE /\ ret' = Raised("reset", "AttributeError")
                /\ UNCHANGED <<self, pc, retried>>
    /\ UNCHANGED <<args, media, callerList, obj, failed_ids, other>>

(* The call that is running the loop, and how it ends. *)
Running == IF obj = "constructing" THEN "__init__" ELSE "reset"

(* except Exception: every exception the loop body raises is caught. *)
catches_nothing(exc) == FALSE
catches_decode_only(exc) == exc = "decode error"
catches(exc) == TRUE

(* _video_id = np.random.randint(0, len(self.filelist)) *)
draw_video_id_other(s) ==
    randint(0, Len(s.filelist)) \ (IF HasAttr(s, "video_id") THEN {s.video_id} ELSE {})
draw_video_id(s) == randint(0, Len(s.filelist))

(* The history of failed attempts: the latest two indices that failed. *)
Remember(ids, id) == IF Len(ids) < 2 THEN Append(ids, id) ELSE <<ids[2], id>>

(* An exception leaves the loop and the call. *)
RaiseOut(s, exc) ==
    /\ self' = s
    /\ pc' = "idle"
    /\ obj' = IF obj = "constructing" THEN "failed" ELSE obj
    /\ ret' = Raised(Running, exc)
    /\ retried' = retried
    /\ failed_ids' = <<>>

(* One pass of the loop body with the index id drawn on line 168. *)
RandomVideoSource_reset_attempt(id) ==
    LET s1 == SetAttr(self, "video_id", id)
        r == load_video(self.filelist, self.shape, self.grayscale, id)
    IN  IF r.status = "raised"
            THEN IF catches(r.val)
                     THEN /\ self' = s1        \* caught: continue
                          /\ retried' = TRUE
                          /\ failed_ids' = Remember(failed_ids, id)
                          /\ UNCHANGED <<pc, obj, ret>>
                     ELSE RaiseOut(s1, r.val)
        ELSE LET s2 == SetAttr(s1, "current_vid", r.val)
             IN  IF randint_raises(0, Len(s2.current_vid))
                     THEN RaiseOut(s2, "ValueError")
                     ELSE \E l \in randint(0, Len(s2.current_vid)) :
                             /\ self' = SetAttr(s2, "loc", l)
                             /\ pc' = "idle"
                             /\ obj' = "live"
                             /\ ret' = Ok(Running, None)
                             /\ retried' = retried
                             /\ failed_ids' = <<>>

RandomVideoSource_reset_try ==
    /\ obj \in {"constructing", "live"} /\ pc = "reset_loop"
    /\ IF randint_raises(0, Len(self.filelist))
           THEN IF catches("ValueError")
                    THEN /\ retried' = TRUE          \* caught: continue
                         /\ UNCHANGED <<self, pc, obj, ret, failed_ids>>
                    ELSE RaiseOut(self, "ValueError")
           ELSE \E id \in draw_video_id(self) : RandomVideoSource_reset_attempt(id)
    /\ UNCHANGED <<args, media, callerList, other>>

RandomVideoSource_get_envindex == self.video_id

(* A second source: the caller builds a RandomVideoSource, with the default *)
(* random_bg, max_videos and grayscale, from the list object it built the  *)
(* RandomImageSource from, which is the class that keeps that object as    *)
(* its filelist. The whole constructor is one step: the shuffle of the     *)
(* caller's list in place, the pool copied from it, and the reset() loop   *)
(* up to the attempt that ends it; with nothing loadable it never returns. *)
DefaultMaxVideos == 20

OtherRandomVideoSource_init ==
    /\ Live("RandomImageSource") /\ other.cls = "none"
    /\ \E shuffled \in shuffle(callerList) :
          LET s0 == [cls |-> "RandomVideoSource", grayscale |-> FALSE, shape |-> args.shape,
                     filelist |-> pool(shuffled, DefaultMaxVideos),
                     max_videos |-> DefaultMaxVideos, random_bg |-> FALSE,
                     current_idx |-> 0]
              load(id) == load_video(s0.filelist, s0.shape, s0.grayscale, id)
              loadable == {id \in draw_video_id(s0) : load(id).status = "ok"}
          IN  /\ callerList' = shuffled
              /\ IF loadable = {}
                     THEN /\ other' = s0
                          /\ pc' = "other_reset_loop"
                     ELSE \E id \in loadable :
                             LET s2 == SetAttr(SetAttr(s0, "video_id", id),
                                               "current_vid", load(id).val)
                             IN  /\ pc' = pc
                                 /\ IF randint_raises(0, Len(s2.current_vid))
                                        THEN other' = s2
                                        ELSE \E l \in randint(0, Len(s2.current_vid)) :
                                                other' = SetAttr(s2, "loc", l)
    /\ UNCHANGED <<args, media, obj, self, ret, retried, failed_ids>>

(* self._loc += 1 *)
advance_stuck(loc) == loc
advance(loc) == loc + 1

(* self._loc = np.random.randint(0, len(self._current_vid)) *)
redraw_forward(loc, n) == {(loc + 1) % n}
redraw(loc, n) == randint(0, n)

RandomVideoSource_get_image ==
    /\ Live("RandomVideoSource")
    /\ IF self.random_bg
           THEN IF randint_raises(0, Len(self.current_vid))
                    THEN /\ ret' = Raised("get_image", "ValueError")
                         /\ self' = self
                    ELSE \E l \in redraw(self.loc, Len(self.current_vid)) :
                            /\ self' = SetAttr(self, "loc", l)
                            /\ ret' = Ok("get_image",
                                         At(self.current_vid, l % Len(self.current_vid)))
           ELSE /\ self.loc < MaxLoc
                /\ self' = SetAttr(self, "loc", advance(self.loc))
                /\ ret' = IF Len(self.current_vid) = 0
                              THEN Raised("get_image", "ZeroDivisionError")
                              ELSE Ok("get_image",
                                      At(self.current_vid,
                                         self'.loc % Len(self.current_vid)))
    /\ UNCHANGED <<retried, failed_ids, other, args, media, callerList, obj, pc>>

----------------------------------------------------------------------------

Next ==
    \/ BackgroundMatting_init
    \/ BackgroundMatting_get_mask
    \/ FixedColorSource_init
    \/ FixedColorSource_get_image
    \/ RandomColorSource_init
    \/ RandomColorSource_reset
    \/ RandomColorSource_get_image
    \/ NoiseSource_init
    \/ NoiseSource_get_image
    \/ ImageSource_reset
    \/ RandomImageSource_init
    \/ RandomImageSource_reset
    \/ RandomImageSource_get_image
    \/ RandomVideoSource_init
    \/ RandomVideoSource_reset_del
    \/ RandomVideoSource_reset_try
    \/ RandomVideoSource_get_image
    \/ OtherRandomVideoSource_init

Spec == Init /\ [][Next]_vars

(* Fair random selection in reset(): while the loop runs, every pool index *)
(* is drawn again and again, so the attempt with index i is not put off    *)
(* forever.                                                                *)
FairSelection ==
    \A i \in 0..(MaxFiles - 1) :
        WF_vars(/\ RandomVideoSource_reset_try
                /\ "video_id" \in DOMAIN self'
                /\ self'.video_id = i)

SpecFair == Spec /\ FairSelection

----------------------------------------------------------------------------
(* What the claims speak of. *)

Between == obj = "live" /\ pc = "idle"     \* a constructed source, no call running

(* The shape the source was configured to serve. *)
ConfiguredShape ==
    <<args.shape[1], args.shape[2]>> \o
    (IF args.cls \in {"RandomImageSource", "RandomVideoSource"} /\ args.grayscale
         THEN <<1>> ELSE <<3>>)

(* A loaded, non-empty buffer and a cursor get_image() can serve from. *)
Playable ==
    CASE self.cls = "FixedColorSource" -> HasAttr(self, "arr")
      [] self.cls = "RandomColorSource" ->
            /\ HasAttr(self, "arr")
            /\ self.color_id \in 0..(Len(self.color_list) - 1)
      [] self.cls = "NoiseSource" -> HasAttr(self, "shape")
      [] self.cls = "RandomImageSource" ->
            /\ Len(self.arr) > 0
            /\ self.loc \in 0..(Len(self.arr) - 1)
      [] self.cls = "RandomVideoSource" ->
            /\ HasAttr(self, "current_vid")
            /\ Len(self.current_vid) > 0
            /\ HasAttr(self, "loc")
            /\ self.loc >= 0

(* C1: after construction returns and after every reset() call, every      *)
(* source variant holds a loaded, non-empty buffer and a cursor from which *)
(* get_image() can serve, whatever the decoder yielded.                    *)
C1_PlayableAfterReset ==
    (Between /\ ret.op \in {"__init__", "reset"}) => Playable

(* C2: reset() on RandomVideoSource never surfaces an error to the caller: *)
(* a reset() call that has ended has returned normally.                    *)
C2_ResetNeverRaises ==
    (self.cls = "RandomVideoSource" /\ ret.op = "reset") => ret.status = "ok"

(* C3: get_image() raises no error in any state reachable by reset() and   *)
(* get_image() calls on a constructed source.                              *)
C3_GetImageNeverRaises ==
    ret.op = "get_image" => ret.status = "ok"

(* C5: every get_image() call of every variant returns an array of exactly *)
(* the configured shape (h, w, c).                                         *)
C5_GetImageShape ==
    ret.op = "get_image" =>
        /\ ret.status = "ok"
        /\ ret.val.shape = ConfiguredShape

(* Every array that get_image() does return has the configured shape. *)
ReturnedShape ==
    (ret.op = "get_image" /\ ret.status = "ok") => ret.val.shape = ConfiguredShape

(* The frame number, within its video, of the frame a call returned. *)
served(r) == r.val.data[2]

IsVideo == self.cls = "RandomVideoSource"
IsImage == self.cls = "RandomImageSource"
IsColor == self.cls = "RandomColorSource"

(* C4: RandomVideoSource in sequential mode: every get_image() call that   *)
(* serves a frame serves the one after the frame served by the previous    *)
(* call, modulo the buffer length, from an unchanged buffer; the first     *)
(* call after reset() serves the frame after the cursor reset() drew.      *)
C4_SequentialAdvance ==
    [][(RandomVideoSource_get_image /\ ~self.random_bg /\ ret'.status = "ok") =>
          LET n == Len(self.current_vid)
          IN  /\ self'.current_vid = self.current_vid
              /\ ret.status = "ok"
              /\ ret.op \in {"__init__", "reset", "get_image"}
              /\ ret.op = "get_image" => served(ret') = (served(ret) + 1) % n
              /\ ret.op \in {"__init__", "reset"} =>
                    /\ self.loc \in 0..(n - 1)
                    /\ served(ret') = (self.loc + 1) % n
              /\ ret'.val = At(self.current_vid, served(ret'))]_vars

(* C4 witness: a two-frame video played past its end: the cursor has been  *)
(* advanced to 3 and frame 1 is served again.                              *)
C4_Witness ==
    /\ Between /\ IsVideo /\ ~self.random_bg
    /\ ret.op = "get_image" /\ ret.status = "ok"
    /\ Len(self.current_vid) = 2
    /\ self.loc = 3
    /\ served(ret) = 1

(* C6: RandomImageSource: the cursor is in [0, total_frames); a call of    *)
(* get_image() changes no attribute and returns the frame at the cursor,   *)
(* so consecutive get_image() calls return the identical frame; only       *)
(* reset() changes the cursor, and nothing changes the buffer.             *)
C6_ImageCursorFixed ==
    /\ []((Between /\ IsImage) =>
            /\ self.loc \in 0..(self.total_frames - 1)
            /\ (ret.op = "get_image" =>
                   ret.status = "ok" /\ ret.val = At(self.arr, self.loc)))
    /\ [][(Between /\ IsImage) =>
            /\ self'.arr = self.arr
            /\ (ret'.op = "get_image" => self' = self)
            /\ (self'.loc # self.loc => ret'.op = "reset")
            /\ (ret.op = "get_image" /\ ret'.op = "get_image" => ret'.val = ret.val)]_vars

(* C6 witness: get_image() has served frame 1 of a buffer of two or more. *)
C6_Witness ==
    /\ Between /\ IsImage
    /\ ret.op = "get_image"
    /\ self.total_frames >= 2
    /\ self.loc = 1

(* The buffer of a constructed RandomImageSource has N frames, frame i the *)
(* decoded image of filelist[i mod L].                                     *)
BufferMaps(N) ==
    LET L == Len(callerList)
    IN  /\ L > 0
        /\ self.total_frames = N
        /\ Len(self.arr) = N
        /\ \A i \in 0..(N - 1) :
              /\ At(self.arr, i).data = <<At(callerList, i % L), 0>>
              /\ At(self.arr, i).shape = ConfiguredShape

(* C7 as stated: with a target frame count N the buffer has exactly N      *)
(* frames, frame i from filelist[i mod L]; with none given, N = L.         *)
C7_Original ==
    (Between /\ IsImage /\ other.cls = "none") =>
        BufferMaps(IF args.total_frames = None THEN Len(callerList)
                   ELSE args.total_frames[1])

(* C7 amended: the same for a target frame count N >= 1; a target of 0 is  *)
(* treated like a target that is not given, N = L.                         *)
C7_BufferMapping ==
    (Between /\ IsImage /\ other.cls = "none") =>
        BufferMaps(IF args.total_frames = None \/ args.total_frames[1] = 0
                       THEN Len(callerList)
                       ELSE args.total_frames[1])

(* C7 witness: two files and total_frames = 3: frames from files 1, 2, 1. *)
C7_Witness ==
    /\ Between /\ IsImage
    /\ Len(callerList) = 2
    /\ args.total_frames = Some(3)
    /\ [i \in 1..3 |-> self.arr[i].data[1]] = <<1, 2, 1>>

(* C8: RandomVideoSource with max_videos = k from n >= k videos: the pool  *)
(* has exactly k entries, all distinct entries of the caller's list, and   *)
(* never changes; every video attempted (the index drawn) or loaded (the   *)
(* buffer's file) is an entry of the pool, so at most k distinct videos    *)
(* are ever loaded.                                                        *)
C8_PoolFixed ==
    /\ []((args.cls = "RandomVideoSource" /\ obj # "none") =>
            /\ (args.max_videos <= Len(callerList) =>
                   Len(self.filelist) = args.max_videos)
            /\ Range(self.filelist) \subseteq Range(callerList)
            /\ Cardinality(Range(self.filelist)) = Len(self.filelist)
            /\ Cardinality(Range(self.filelist)) <= args.max_videos
            /\ (HasAttr(self, "video_id") =>
                   self.video_id \in 0..(Len(self.filelist) - 1))
            /\ (HasAttr(self, "current_vid") =>
                   \A i \in DOMAIN self.current_vid :
                      self.current_vid[i].data[1] \in Range(self.filelist)))
    /\ [][(args.cls = "RandomVideoSource" /\ obj # "none") =>
            self'.filelist = self.filelist]_vars

(* C8 witness: max_videos = 1 of 2 videos, and a reset() has loaded the    *)
(* one video of the pool.                                                  *)
C8_Witness ==
    /\ Between /\ IsVideo
    /\ Len(callerList) = 2 /\ args.max_videos = 1
    /\ ret.op = "reset" /\ ret.status = "ok"
    /\ Len(self.current_vid) >= 1

(* C9: RandomVideoSource between calls: get_envindex() is an index of the  *)
(* pool and the buffer holds exactly the frames of the pool entry at that  *)
(* index; get_image() never changes get_envindex().                        *)
C9_EnvIndexMatchesBuffer ==
    /\ []((Between /\ IsVideo) =>
            LET id == RandomVideoSource_get_envindex
                fname == At(self.filelist, id)
            IN  /\ id \in 0..(Len(self.filelist) - 1)
                /\ Len(self.current_vid) = media[fname]
                /\ \A i \in DOMAIN self.current_vid :
                      self.current_vid[i].data = <<fname, i - 1>>)
    /\ [][(Between /\ IsVideo /\ ret'.op = "get_image") =>
            self'.video_id = self.video_id]_vars

(* C9 witness: a reset() has returned after a failed load attempt, with a  *)
(* non-empty buffer.                                                       *)
C9_Witness ==
    /\ Between /\ IsVideo
    /\ ret.op = "reset" /\ ret.status = "ok"
    /\ retried
    /\ Len(self.current_vid) >= 1

(* C10: RandomColorSource between calls: get_envindex() is in              *)
(* [0, max_images), the image is (h, w, 3) with every pixel equal to       *)
(* color_list[get_envindex()], get_image() returns that image, and the     *)
(* palette never changes.                                                  *)
C10_ColorMatchesIndex ==
    /\ []((Between /\ IsColor) =>
            LET id == RandomColorSource_get_envindex
            IN  /\ id \in 0..(args.max_images - 1)
                /\ Len(self.color_list) = args.max_images
                /\ self.arr.shape = <<args.shape[1], args.shape[2], 3>>
                /\ DOMAIN self.arr.data = (1..args.shape[1]) \X (1..args.shape[2])
                /\ \A p \in DOMAIN self.arr.data :
                      self.arr.data[p] = At(self.color_list, id)
                /\ (ret.op = "get_image" => ret.val = self.arr))
    /\ [][(IsColor /\ obj = "live") => self'.color_list = self.color_list]_vars

(* C10 witness: after a reset() that drew index 1 of a palette of two      *)
(* different colours.                                                      *)
C10_Witness ==
    /\ Between /\ IsColor
    /\ ret.op = "reset"
    /\ Len(self.color_list) = 2
    /\ self.color_list[1] # self.color_list[2]
    /\ RandomColorSource_get_envindex = 1

(* A pool entry is unloadable when the decoder fails on its file. *)
Unloadable(i) == media[At(self.filelist, i)] = Corrupt
AllUnloadable == \A i \in 0..(Len(self.filelist) - 1) : Unloadable(i)

(* C11: RandomVideoSource: when every file of the pool is unloadable, a     *)
(* reset() that was entered never returns: the source stays in the retry    *)
(* loop, no error has been raised by the call and no buffer is installed.   *)
C11_UnloadablePoolNeverReturns ==
    (obj # "none" /\ IsVideo /\ AllUnloadable) =>
        /\ pc = "reset_loop"
        /\ obj = "constructing"
        /\ ret = Ok("none", None)
        /\ ~HasAttr(self, "current_vid")

(* Two corrupt files in the pool and two attempts already failed. *)
C11_Witness ==
    /\ IsVideo /\ pc = "reset_loop" /\ Len(self.filelist) = 2
    /\ AllUnloadable /\ Len(failed_ids) = 2 /\ retried

(* The frame indices build_arr visits whose file cannot be decoded or       *)
(* whose decoded image cannot be stored in the buffer.                      *)
FailingFrames ==
    {i \in 0..(self.total_frames - 1) :
        build_frame(callerList, args.shape, args.grayscale, i).status = "raised"}

(* C12: RandomImageSource construction is fail-fast: when decoding or        *)
(* resizing fails for a file visited while the buffer is built, the          *)
(* constructor raises and no source is produced; a constructed source has    *)
(* a buffer of total_frames frames, each the resized image of a decodable    *)
(* file of the list, none left unfilled.                                     *)
C12_FailFast ==
    (obj # "none" /\ IsImage) =>
        /\ (other.cls = "none" /\ FailingFrames # {}) =>
               /\ obj = "failed"
               /\ ret.op = "__init__" /\ ret.status = "raised"
               /\ ~HasAttr(self, "arr")
        /\ obj = "live" =>
               /\ Len(self.arr) = self.total_frames
               /\ \A k \in DOMAIN self.arr :
                     /\ self.arr[k].shape = ConfiguredShape
                     /\ self.arr[k].data[1] \in Range(callerList)
                     /\ media[self.arr[k].data[1]] # Corrupt
                     /\ self.arr[k].data[2] = 0

(* The first file decodes and the second does not: the constructor fails     *)
(* with one frame already stored.                                            *)
C12_Witness ==
    /\ IsImage /\ obj = "failed" /\ ret = Raised("__init__", "cv2.error")
    /\ Len(callerList) = 2 /\ self.total_frames >= 2
    /\ media[At(callerList, 0)] # Corrupt /\ media[At(callerList, 1)] = Corrupt

(* The height and width of an image, and its pixel at (i, j): the channel   *)
(* values of a colour image, the value of a grayscale one.                  *)
SpatialShape(im) == <<im.shape[1], im.shape[2]>>
PixelEquals(im, color, i, j) ==
    IF Len(im.shape) = 3
        THEN \A ch \in 0..(im.shape[3] - 1) : im.data[<<i, j, ch>>] = color.data[<<ch>>]
        ELSE im.data[<<i, j>>] = color.data[<<>>]

(* C13: BackgroundMatting: get_mask(img) has the spatial shape of img, one   *)
(* boolean per pixel, and its entry [i, j] is true exactly when the whole    *)
(* pixel img[i, j] equals the configured color; the call changes neither     *)
(* the image nor the configured color.                                       *)
C13_MaskPerPixel ==
    (self.cls = "BackgroundMatting" /\ ret.op = "get_mask") =>
        /\ ret.status = "ok"
        /\ self.color = args.color
        /\ ret.val.shape = SpatialShape(args.img[1])
        /\ \A idx \in Indices(SpatialShape(args.img[1])) :
              ret.val.data[idx] = PixelEquals(args.img[1], self.color, idx[1], idx[2])

(* What holds on the code: the mask has the shape of the whole image and     *)
(* compares each channel value with the color's.                             *)
MaskPerElement ==
    (self.cls = "BackgroundMatting" /\ ret.op = "get_mask") =>
        /\ ret.val.shape = args.img[1].shape
        /\ \A idx \in Indices(args.img[1].shape) :
              ret.val.data[idx] =
                  (args.img[1].data[idx] =
                      self.color.data[IF Len(idx) = 3 THEN <<idx[3]>> ELSE <<>>])

(* C14: RandomVideoSource: after construction, after every reset() and       *)
(* after every get_image() in either mode, the stored cursor is wrapped      *)
(* modulo the buffer length: 0 <= _loc < len(_current_vid).                  *)
C14_CursorWrapped ==
    (IsVideo /\ Between /\ ret.op \in {"__init__", "reset", "get_image"}) =>
        /\ HasAttr(self, "current_vid") /\ HasAttr(self, "loc")
        /\ 0 <= self.loc
        /\ self.loc < Len(self.current_vid)

(* What holds on the code: the frame a call serves is the one at the stored  *)
(* cursor modulo the buffer length, and the stored cursor is never negative. *)
ServedIndexWrapped ==
    (IsVideo /\ Between /\ ret.op = "get_image" /\ ret.status = "ok") =>
        /\ 0 <= self.loc
        /\ ret.val = At(self.current_vid, self.loc % Len(self.current_vid))

(* The claim as it was stated: an attempt that follows a failed one never    *)
(* draws the index that just failed.                                         *)
C15_Original ==
    (IsVideo /\ pc = "reset_loop") =>
        \A k \in 1..(Len(failed_ids) - 1) : failed_ids[k + 1] # failed_ids[k]

(* C15: RandomVideoSource: when loading the chosen video fails inside        *)
(* reset(), the next attempt draws its index from the whole pool again:      *)
(* every pool index can be drawn, the one whose load just failed included.   *)
C15_RetryDrawsFromWholePool ==
    (IsVideo /\ pc = "reset_loop" /\ failed_ids # <<>>) =>
        /\ self.video_id = failed_ids[Len(failed_ids)]
        /\ \A j \in 0..(Len(self.filelist) - 1) : j \in draw_video_id(self)
        /\ ENABLED (/\ self.video_id \in draw_video_id(self)
                    /\ RandomVideoSource_reset_attempt(self.video_id))

(* In a pool of two, the load of index 0 failed and the retry drew index 0   *)
(* again.                                                                    *)
C15_Witness ==
    /\ IsVideo /\ pc = "reset_loop" /\ Len(self.filelist) = 2
    /\ failed_ids = <<0, 0>>

(* C16: RandomVideoSource: inside reset() the source references no buffer    *)
(* until a load has succeeded: the old buffer is released before the loop    *)
(* starts and a failed attempt installs nothing; the buffer the source       *)
(* references is always a whole one, every decoded frame of the selected     *)
(* file, each already resized to the configured shape.                       *)
C16_OneWholeBuffer ==
    (IsVideo /\ obj \in {"constructing", "live"}) =>
        /\ pc = "reset_loop" => ~HasAttr(self, "current_vid")
        /\ HasAttr(self, "current_vid") =>
              LET f == At(self.filelist, self.video_id)
              IN  /\ media[f] # Corrupt
                  /\ Len(self.current_vid) = Len(vread(f, self.grayscale))
                  /\ \A k \in DOMAIN self.current_vid :
                        /\ self.current_vid[k].shape = ConfiguredShape
                        /\ self.current_vid[k].data = <<f, k - 1>>

(* A reset() of a constructed source after a failed attempt: the old buffer  *)
(* is gone and nothing is installed.                                         *)
C16_Witness ==
    /\ IsVideo /\ obj = "live" /\ pc = "reset_loop" /\ failed_ids # <<>>
    /\ ~HasAttr(self, "current_vid")

(* C17: RandomVideoSource with random_bg: every get_image() call draws the   *)
(* cursor anew from 0..len(buffer)-1 whatever it was before: a served frame  *)
(* is the one at the stored cursor, which is in range, and after any call    *)
(* every frame j of the buffer can be the one the next call serves.          *)
C17_RandomRedraw ==
    (IsVideo /\ Between /\ self.random_bg /\ HasAttr(self, "current_vid")) =>
        /\ (ret.op = "get_image" /\ ret.status = "ok") =>
               /\ self.loc \in 0..(Len(self.current_vid) - 1)
               /\ ret.val = At(self.current_vid, self.loc)
        /\ \A j \in 0..(Len(self.current_vid) - 1) :
               ENABLED (/\ RandomVideoSource_get_image
                        /\ ret'.status = "ok"
                        /\ self'.loc = j
                        /\ ret'.val = At(self.current_vid, j))

(* Frame 1 of a two-frame buffer was served, and the next call can serve     *)
(* frame 1 again, which sequential playback never does.                      *)
C17_Witness ==
    /\ IsVideo /\ Between /\ self.random_bg
    /\ ret.op = "get_image" /\ ret.status = "ok"
    /\ Len(self.current_vid) = 2 /\ served(ret) = 1
    /\ ENABLED (RandomVideoSource_get_image /\ ret'.status = "ok" /\ served(ret') = 1)

(* C18: no mutable state is shared between source instances: when the        *)
(* caller builds a second source, also from the list object the first was    *)
(* built from, no state of the first changes: not its attributes and not     *)
(* the file list its filelist attribute refers to.                           *)
C18_NoSharedState ==
    [][(obj = "live" /\ IsImage /\ other' # other) =>
           (self' = self /\ callerList' = callerList)]_vars

(* A pool file that loads with at least one frame. *)
GoodInPool ==
    \E i \in 0..(Len(self.filelist) - 1) :
        LET r == load_video(self.filelist, self.shape, self.grayscale, i)
        IN  r.status = "ok" /\ Len(r.val) >= 1

(* C19: RandomVideoSource: with a pool file that loads with at least one     *)
(* frame, reset() ends by returning: a reset() call, the constructor's       *)
(* included, that has ended has not raised.                                  *)
C19_ResetReturns ==
    (IsVideo /\ obj # "none" /\ pc = "idle" /\ GoodInPool
        /\ ret.op \in {"__init__", "reset"}) =>
            ret.status = "ok"

(* What holds on the code under SpecFair: with such a file in the pool the   *)
(* retry loop is left, by a return or by the ValueError of line 173.         *)
ResetTerminates ==
    (IsVideo /\ pc = "reset_loop" /\ GoodInPool) ~> (pc = "idle")

(* C20: constructing a RandomVideoSource with an empty pool (an empty file   *)
(* list, or max_videos = 0) raises nothing and never returns: the failed     *)
(* index draw is caught and the loop goes on; constructing a                 *)
(* RandomColorSource with an empty palette or a RandomImageSource with an    *)
(* empty file list fails with an error.                                      *)
C20_EmptyInputs ==
    obj # "none" =>
        /\ (args.cls = "RandomVideoSource" /\ Len(self.filelist) = 0) =>
               /\ obj = "constructing" /\ pc = "reset_loop"
               /\ ret = Ok("none", None)
        /\ (args.cls = "RandomColorSource" /\ args.max_images = 0) =>
               /\ obj = "failed"
               /\ ret.op = "__init__" /\ ret.status = "raised"
        /\ (args.cls = "RandomImageSource" /\ Len(callerList) = 0) =>
               /\ obj = "failed"
               /\ ret.op = "__init__" /\ ret.status = "raised"

(* Two files and max_videos = 0: the pool is empty, a draw has failed and    *)
(* was caught, and the constructor is still in the loop.                     *)
C20_Witness ==
    /\ args.cls = "RandomVideoSource" /\ obj = "constructing"
    /\ Len(callerList) = 2 /\ args.max_videos = 0 /\ Len(self.filelist) = 0
    /\ retried /\ pc = "reset_loop"

====
